---- MODULE Spec2Model ----
(***************************************************************************)
(* Model of the statistics and chart-data code of the highcharts service:  *)
(*   src/src/plot/boxplot.py   get_box_plot_json                           *)
(*   src/src/plot/violinplot.py get_violin_plot_json                       *)
(*   src/src/utils/stats.py    identify_variable_types,                    *)
(*                             calculate_effect_size,                      *)
(*                             perform_statistical_test,                   *)
(*                             find_significant_categorical_continuous_    *)
(*                             pairs, get_top_significant_pairs            *)
(*                                                                         *)
(* Numbers.  Column values are small integers.  Quartiles, fences and      *)
(* whiskers are kept exactly, in eighths (a value v is the integer 8*v).   *)
(* A p-value is an integer number of hundredths (100 is 1.0).  An effect   *)
(* size is an exact fraction <<num, den>>; den = 0 stands for NaN.         *)
(*                                                                         *)
(* A cell of the table is <<>> when the value is missing and <<v>> when it *)
(* is v.  A dataset is a sequence of rows, a row a record of cells.        *)
(***************************************************************************)
EXTENDS Integers, Sequences, FiniteSets, TLC

VARIABLES
    pc,               \* position of the running call
    data,             \* the DataFrame handed to the call
    dtypes,           \* dtype of each column: "object", "category", "numeric"
    \* get_box_plot_json
    clean_data, categories, i, box_data, outliers_data, series,
    \* find_significant_categorical_continuous_pairs / get_top_significant_pairs
    categorical_vars, continuous_vars, ci, ki, results, results_df, top_n, top,
    \* perform_statistical_test
    test_result,
    \* the keyword arguments of the stats.py calls (cat_threshold is
    \* categorical_threshold, min_obs is min_observations)
    alpha, min_effect_size, cat_threshold, min_obs,
    \* identify_variable_types: how many columns the loop has gone through
    col_idx,
    \* get_violin_plot_json; kde_results lists, per category tried, what the
    \* density estimate of lines 62-70 did
    violin_series, chart_title, kde_results,
    \* get_corr_heatmap_json / get_freq_heatmaps_json: the matrix handed in,
    \* the cross-tabulation, the triplets emitted so far, the loop indices,
    \* the axis labels
    corr, heatmap_data, heat_data, hy, hx, y_categories, x_categories,
    \* the web service: which application runs, the storage backend chosen at
    \* startup, whether the Redis server answers, the keys held by Redis, the
    \* dict of the memory backend, the clock, what each upload answered, the
    \* request in flight between its two storage calls, the last response
    app, use_redis, redis_up, redis_store, analyzers, now, sessions, req, resp

vars == <<pc, data, dtypes, clean_data, categories, i, box_data, outliers_data, series,
          categorical_vars, continuous_vars, ci, ki, results, results_df,
          top_n, top, test_result, alpha, min_effect_size,
          cat_threshold, min_obs, col_idx, violin_series, chart_title,
          kde_results, corr, heatmap_data, heat_data, hy, hx, y_categories, x_categories,
          app, use_redis, redis_up, redis_store, analyzers, now, sessions, req,
          resp>>

boxVars == <<clean_data, categories, i, box_data, outliers_data, series>>
rankVars == <<categorical_vars, continuous_vars, ci, ki, results, results_df,
              top_n, top>>
paramVars == <<alpha, min_effect_size, cat_threshold, min_obs>>
violinVars == <<violin_series, chart_title, kde_results>>
heatVars == <<corr, heatmap_data, heat_data, hy, hx, y_categories, x_categories>>
svcVars == <<app, use_redis, redis_up, redis_store, analyzers, now, sessions, req,
             resp>>

----------------------------------------------------------------------------
(* Bounds of the model *)

MaxBoxRows == 4
MaxGroupRows == 8
MaxRows == 3
MaxTopN == 2
MaxColumnRows == 6
MaxViolinRows == 5
MaxLabels == 3

\* defaults of identify_variable_types
DefaultCategoricalThreshold == 10
DefaultMinObservations == 5

\* defaults of alpha (in hundredths) and min_effect_size (a fraction
\* <<num, den>>)
Alpha == 5
MinEffectSize == <<1, 100>>

\* a call that leaves every keyword argument at its default
DefaultParams ==
    /\ alpha = Alpha /\ min_effect_size = MinEffectSize
    /\ cat_threshold = DefaultCategoricalThreshold
    /\ min_obs = DefaultMinObservations

----------------------------------------------------------------------------
(* Cells, rows and columns *)

NA == <<>>
Some(v) == <<v>>

\* no heatmap call and no web service in this run
HeatIdle ==
    /\ corr = <<>> /\ heatmap_data = <<>> /\ heat_data = <<>> /\ hy = 0 /\ hx = 0
    /\ y_categories = <<>> /\ x_categories = <<>>
ServiceIdle ==
    /\ app = "none" /\ use_redis = FALSE /\ redis_up = FALSE
    /\ redis_store = <<>> /\ analyzers = <<>> /\ now = 0 /\ sessions = <<>>
    /\ req = NA /\ resp = NA

\* The declared order of the category labels: sorted() order, and the
\* categories of a column of dtype "category".
CatOrder == <<"A", "B", "C">>

Range(s) == {s[n] : n \in DOMAIN s}

SeqsUpTo(S, n) == UNION {[1..m -> S] : m \in 0..n}

\* DataFrame[[a, b]].dropna(): the rows complete in every column of cols
DropNA(df, cols) == SelectSeq(df, LAMBDA r : \A c \in cols : r[c] # NA)

\* the values of one column of a frame without missing values
Column(df, col) == [n \in DOMAIN df |-> df[n][col][1]]

RECURSIVE SumSeq(_)
SumSeq(s) == IF s = <<>> THEN 0 ELSE s[1] + SumSeq(Tail(s))

RECURSIVE ProdSeq(_)
ProdSeq(s) == IF s = <<>> THEN 1 ELSE s[1] * ProdSeq(Tail(s))

Sorted(s) == SortSeq(s, LAMBDA a, b : a < b)

----------------------------------------------------------------------------
(* src/src/plot/boxplot.py: get_box_plot_json *)

\* sorted(clean_data[var_categorical].unique())
SortedUnique(df, col) ==
    SelectSeq(CatOrder, LAMBDA c : \E n \in DOMAIN df : df[n][col] = Some(c))

\* clean_data[clean_data[var_categorical] == category][var_continuous]
CategoryData(df, cat_col, category, cont_col) ==
    Column(SelectSeq(df, LAMBDA r : r[cat_col] = Some(category)), cont_col)

Quantile4Lower(values, k) ==
    LET xs == Sorted(values)
        h4 == (Len(xs) - 1) * k
        j  == h4 \div 4
    IN  4 * xs[j + 1]

\* np.quantile(values, k/4), linear interpolation between order statistics,
\* times 4: position (n-1)*k/4 = j + g/4 in the sorted values (0-based j)
Quantile4(values, k) ==
    LET xs == Sorted(values)
        h4 == (Len(xs) - 1) * k
        j  == h4 \div 4
        g  == h4 % 4
    IN  IF g = 0 THEN 4 * xs[j + 1]
        ELSE 4 * xs[j + 1] + g * (xs[j + 2] - xs[j + 1])

\* np.median(values), times 4
Median4(values) ==
    LET xs == Sorted(values)
        n  == Len(xs)
    IN  IF n % 2 = 1 THEN 4 * xs[(n + 1) \div 2]
        ELSE 2 * (xs[n \div 2] + xs[n \div 2 + 1])

MinSeq(s) == CHOOSE v \in Range(s) : \A w \in Range(s) : v <= w
MaxSeq(s) == CHOOSE v \in Range(s) : \A w \in Range(s) : v >= w

LowerFence8AboveQ1(values) ==
    2 * Quantile4(values, 1) + 3 * (Quantile4(values, 3) - Quantile4(values, 1))

\* lower_fence = q1 - 1.5 * iqr and upper_fence = q3 + 1.5 * iqr, in eighths
LowerFence8(values) ==
    2 * Quantile4(values, 1) - 3 * (Quantile4(values, 3) - Quantile4(values, 1))
UpperFence8(values) ==
    2 * Quantile4(values, 3) + 3 * (Quantile4(values, 3) - Quantile4(values, 1))

\* category_data[(category_data >= lower_fence) & (category_data <= upper_fence)]
FilteredData(values) ==
    SelectSeq(values, LAMBDA v : 8 * v >= LowerFence8(values)
                                 /\ 8 * v <= UpperFence8(values))

WhiskerMin8(values) ==
    IF Len(FilteredData(values)) > 0 THEN 8 * MinSeq(FilteredData(values))
    ELSE 8 * MinSeq(values)
WhiskerMax8(values) ==
    IF Len(FilteredData(values)) > 0 THEN 8 * MaxSeq(FilteredData(values))
    ELSE 8 * MaxSeq(values)

\* [i, whisker_min, q1, median, q3, whisker_max], the last five in eighths
BoxTuple(idx, values) ==
    <<idx, WhiskerMin8(values), 2 * Quantile4(values, 1), 2 * Median4(values),
      2 * Quantile4(values, 3), WhiskerMax8(values)>>

OutliersNonStrict(values) ==
    SelectSeq(values, LAMBDA v : 8 * v <= LowerFence8(values)
                                 \/ 8 * v >= UpperFence8(values))

\* category_data[(category_data < lower_fence) | (category_data > upper_fence)]
Outliers(values) ==
    SelectSeq(values, LAMBDA v : 8 * v < LowerFence8(values)
                                 \/ 8 * v > UpperFence8(values))

\* one [i, outlier] point per outlier, the value in eighths
OutlierPoints(idx, values) ==
    [n \in DOMAIN Outliers(values) |-> <<idx, 8 * Outliers(values)[n]>>]

HasBoxFromOne(category_data) == Len(category_data) > 0

\* line 35: a box needs more than one observation
HasBox(category_data) == Len(category_data) > 1

ChartSeriesAlwaysOutliers(box, outliers) ==
    <<[name |-> "Box Plot", type |-> "boxplot", data |-> box],
      [name |-> "Outliers", type |-> "scatter", data |-> outliers]>>

\* lines 59-92: the series list, the outlier series only when there are outliers
ChartSeries(box, outliers) ==
    IF outliers # <<>>
    THEN <<[name |-> "Box Plot", type |-> "boxplot", data |-> box],
           [name |-> "Outliers", type |-> "scatter", data |-> outliers]>>
    ELSE <<[name |-> "Box Plot", type |-> "boxplot", data |-> box]>>

BoxCats == {"A", "B"}
BoxVals == 0..2
BoxRow == [g : {NA} \cup {Some(c) : c \in BoxCats},
           x : {NA} \cup {Some(v) : v \in BoxVals}]

\* one category with many observations
GroupRow == [g : {Some("A")}, x : {Some(v) : v \in BoxVals}]

\* one category holding the values 1, 2, 3, 4, 5, 100 in any order
ScenarioValues == <<1, 2, 3, 4, 5, 100>>
ScenarioTables ==
    {[n \in DOMAIN ScenarioValues |-> [g |-> Some("A"), x |-> Some(ScenarioValues[p[n]])]] :
        p \in Permutations(DOMAIN ScenarioValues)}

InitBox ==
    /\ \/ data \in SeqsUpTo(BoxRow, MaxBoxRows)
       \/ data \in UNION {[1..m -> GroupRow] : m \in (MaxBoxRows + 1)..MaxGroupRows}
       \/ data \in ScenarioTables
    /\ dtypes = [g |-> "object", x |-> "numeric"]
    /\ pc = "box_start"
    /\ clean_data = <<>>
    /\ categories = <<>> /\ i = 0 /\ box_data = <<>> /\ outliers_data = <<>>
    /\ series = <<>>
    /\ DefaultParams
    /\ categorical_vars = NA /\ continuous_vars = NA /\ ci = 1 /\ ki = 1
    /\ results = <<>> /\ results_df = <<>> /\ top_n = 0 /\ top = <<>>
    /\ test_result = NA
    /\ col_idx = 0 /\ violin_series = <<>> /\ chart_title = ""
    /\ kde_results = <<>>
    /\ HeatIdle /\ ServiceIdle

\* lines 21-29: drop incomplete rows, list the categories
BoxPrepare ==
    /\ pc = "box_start"
    /\ clean_data' = DropNA(data, {"g", "x"})
    /\ categories' = SortedUnique(clean_data', "g")
    /\ i' = 0 /\ box_data' = <<>> /\ outliers_data' = <<>>
    /\ pc' = "box_loop"
    /\ UNCHANGED <<data, dtypes, series, rankVars, test_result>>
    /\ UNCHANGED <<paramVars, col_idx, violinVars>>
    /\ UNCHANGED <<heatVars, svcVars>>

\* lines 32-57: one iteration of the loop over enumerate(categories)
BoxCategory ==
    /\ pc = "box_loop"
    /\ i < Len(categories)
    /\ LET category_data == CategoryData(clean_data, "g", categories[i + 1], "x")
       IN  IF HasBox(category_data)
           THEN /\ box_data' = Append(box_data, BoxTuple(i, category_data))
                /\ outliers_data' = outliers_data \o OutlierPoints(i, category_data)
           ELSE UNCHANGED <<box_data, outliers_data>>
    /\ i' = i + 1
    /\ UNCHANGED <<pc, data, dtypes, clean_data, categories, series, rankVars,
                   test_result>>
    /\ UNCHANGED <<paramVars, col_idx, violinVars>>
    /\ UNCHANGED <<heatVars, svcVars>>

\* lines 59-92
BoxSeries ==
    /\ pc = "box_loop"
    /\ i = Len(categories)
    /\ series' = ChartSeries(box_data, outliers_data)
    /\ pc' = "box_done"
    /\ UNCHANGED <<data, dtypes, clean_data, categories, i, box_data,
                   outliers_data, rankVars, test_result>>
    /\ UNCHANGED <<paramVars, col_idx, violinVars>>
    /\ UNCHANGED <<heatVars, svcVars>>

NextBox == BoxPrepare \/ BoxCategory \/ BoxSeries

SpecBox == InitBox /\ [][NextBox]_vars

----------------------------------------------------------------------------
(* src/src/plot/violinplot.py: get_violin_plot_json *)

DensityAttemptedFromTwo(category_data) == Len(category_data) > 1

\* line 59: a density curve needs more than two observations
DensityAttempted(category_data) == Len(category_data) > 2

\* What lines 62-70 may do: gaussian_kde raises on values that are all
\* equal (singular covariance); otherwise the density has a positive
\* maximum ("peak"), or one that fails `max_density > 0` ("no_peak").
KdeOutcomes(category_data) ==
    IF \A n, m \in DOMAIN category_data : category_data[n] = category_data[m]
    THEN {"raises"}
    ELSE {"peak", "no_peak"}

\* lines 80-88: the polygon of the category at index idx (its points are
\* left out)
Polygon(idx, category) ==
    [name |-> "Density", category |-> category, type |-> "polygon", index |-> idx]

\* line 97
ChartTitle(polygons) == IF polygons # <<>> THEN "Violin Plot" ELSE "Box Plot"

ViolinRow == [g : {Some(c) : c \in BoxCats},
              x : {NA} \cup {Some(v) : v \in 0..1}]

InitViolin ==
    /\ data \in SeqsUpTo(ViolinRow, MaxViolinRows)
    /\ dtypes = [g |-> "object", x |-> "numeric"]
    /\ pc = "violin_start"
    /\ clean_data = <<>>
    /\ categories = <<>> /\ i = 0 /\ box_data = <<>> /\ outliers_data = <<>>
    /\ series = <<>>
    /\ DefaultParams
    /\ categorical_vars = NA /\ continuous_vars = NA /\ ci = 1 /\ ki = 1
    /\ results = <<>> /\ results_df = <<>> /\ top_n = 0 /\ top = <<>>
    /\ test_result = NA
    /\ col_idx = 0 /\ violin_series = <<>> /\ chart_title = ""
    /\ kde_results = <<>>
    /\ HeatIdle /\ ServiceIdle

\* lines 23-31
ViolinPrepare ==
    /\ pc = "violin_start"
    /\ clean_data' = DropNA(data, {"g", "x"})
    /\ categories' = SortedUnique(clean_data', "g")
    /\ i' = 0 /\ box_data' = <<>> /\ violin_series' = <<>>
    /\ pc' = "violin_loop"
    /\ UNCHANGED <<data, dtypes, outliers_data, series, rankVars, test_result,
                   paramVars, col_idx, chart_title, kde_results>>
    /\ UNCHANGED <<heatVars, svcVars>>

\* lines 34-93: one iteration of the loop over enumerate(categories).  An
\* exception of the density estimate is caught and the loop goes on.
ViolinCategory ==
    /\ pc = "violin_loop"
    /\ i < Len(categories)
    /\ LET category_data == CategoryData(clean_data, "g", categories[i + 1], "x")
       IN  IF Len(category_data) > 1
           THEN /\ box_data' = Append(box_data, BoxTuple(i, category_data))
                /\ IF DensityAttempted(category_data)
                   THEN \E kde \in KdeOutcomes(category_data) :
                            /\ kde_results' = Append(kde_results, <<i, kde>>)
                            /\ violin_series' =
                                   IF kde = "peak"
                                   THEN Append(violin_series,
                                               Polygon(i, categories[i + 1]))
                                   ELSE violin_series
                   ELSE UNCHANGED <<violin_series, kde_results>>
           ELSE UNCHANGED <<box_data, violin_series, kde_results>>
    /\ i' = i + 1
    /\ UNCHANGED <<pc, data, dtypes, clean_data, categories, outliers_data,
                   series, rankVars, test_result, paramVars, col_idx, chart_title>>
    /\ UNCHANGED <<heatVars, svcVars>>

\* lines 95-147: the title and the series list
ViolinFinish ==
    /\ pc = "violin_loop"
    /\ i = Len(categories)
    /\ chart_title' = ChartTitle(violin_series)
    /\ series' = <<[name |-> "Box Plot", category |-> "", type |-> "boxplot",
                    index |-> 0]>> \o violin_series
    /\ pc' = "violin_done"
    /\ UNCHANGED <<data, dtypes, clean_data, categories, i, box_data,
                   outliers_data, rankVars, test_result, paramVars, col_idx,
                   violin_series, kde_results>>
    /\ UNCHANGED <<heatVars, svcVars>>

NextViolin == ViolinPrepare \/ ViolinCategory \/ ViolinFinish

SpecViolin == InitViolin /\ [][NextViolin]_vars

----------------------------------------------------------------------------
(* src/src/utils/stats.py *)

\* the columns of the dataset, in DataFrame order
ColOrder == <<"g", "h", "x">>
Cols == Range(ColOrder)

IsNumeric(dt, col) == dt[col] = "numeric"

RECURSIVE SetToSortedSeq(_)
SetToSortedSeq(S) ==
    IF S = {} THEN <<>>
    ELSE LET m == CHOOSE v \in S : \A w \in S : v <= w
         IN  <<m>> \o SetToSortedSeq(S \ {m})

\* the keys groupby(col) / value_counts() iterate over: every declared
\* category of a "category" column, observed or not; otherwise the values
\* that occur, sorted
GroupKeys(df, dt, col) ==
    IF dt[col] = "category" THEN CatOrder
    ELSE IF dt[col] = "numeric"
         THEN SetToSortedSeq({df[n][col][1] : n \in {m \in DOMAIN df : df[m][col] # NA}})
         ELSE SortedUnique(df, col)

\* [group[continuous_var].values for name, group in clean_data.groupby(categorical_var)]
GroupValues(df, dt, categorical_var, continuous_var) ==
    LET keys == GroupKeys(df, dt, categorical_var)
    IN  [n \in DOMAIN keys |->
            Column(SelectSeq(df, LAMBDA r : r[categorical_var] = Some(keys[n])),
                   continuous_var)]

\* data[col].value_counts().values
ValueCounts(df, dt, col) ==
    LET keys == GroupKeys(df, dt, col)
    IN  [n \in DOMAIN keys |->
            Cardinality({m \in DOMAIN df : df[m][col] = Some(keys[n])})]

NullCount(df, col) == Cardinality({m \in DOMAIN df : df[m][col] = NA})

\* data[col].nunique()
NUnique(df, col) == Cardinality({df[m][col] : m \in DOMAIN df} \ {NA})

ColumnRoleNoSkip(df, dt, col, categorical_threshold, min_observations) ==
    LET counts == ValueCounts(df, dt, col)
        groups_ok == \A n \in DOMAIN counts : counts[n] >= min_observations
    IN  IF IsNumeric(dt, col)
        THEN IF NUnique(df, col) <= categorical_threshold
             THEN IF groups_ok THEN "categorical" ELSE "continuous"
             ELSE "continuous"
        ELSE IF Len(counts) <= categorical_threshold /\ groups_ok
             THEN "categorical"
             ELSE "excluded"

ColumnRoleIgnoringCounts(df, dt, col, categorical_threshold, min_observations) ==
    LET counts == ValueCounts(df, dt, col)
        groups_ok == \A n \in DOMAIN counts : counts[n] >= min_observations
    IN  IF 2 * NullCount(df, col) > Len(df) THEN "excluded"
        ELSE IF IsNumeric(dt, col)
             THEN IF NUnique(df, col) <= categorical_threshold
                  THEN "categorical"
                  ELSE "continuous"
             ELSE IF Len(counts) <= categorical_threshold /\ groups_ok
                  THEN "categorical"
                  ELSE "excluded"

\* lines 25-47 for one column: "categorical", "continuous" or "excluded"
ColumnRole(df, dt, col, categorical_threshold, min_observations) ==
    LET counts == ValueCounts(df, dt, col)
        groups_ok == \A n \in DOMAIN counts : counts[n] >= min_observations
    IN  IF 2 * NullCount(df, col) > Len(df) THEN "excluded"
        ELSE IF IsNumeric(dt, col)
             THEN IF NUnique(df, col) <= categorical_threshold
                  THEN IF groups_ok THEN "categorical" ELSE "continuous"
                  ELSE "continuous"
             ELSE IF Len(counts) <= categorical_threshold /\ groups_ok
                  THEN "categorical"
                  ELSE "excluded"

\* identify_variable_types: <<categorical_vars, continuous_vars>>
identify_variable_types(df, dt, categorical_threshold, min_observations) ==
    << SelectSeq(ColOrder, LAMBDA c :
           ColumnRole(df, dt, c, categorical_threshold, min_observations) = "categorical"),
       SelectSeq(ColOrder, LAMBDA c :
           ColumnRole(df, dt, c, categorical_threshold, min_observations) = "continuous") >>

\* Exact fractions <<num, den>> with den > 0; <<0, 0>> is NaN
Zero == <<0, 1>>
NaN == <<0, 0>>
IsNaN(e) == e[2] = 0
FracGeq(e, f) == ~IsNaN(e) /\ ~IsNaN(f) /\ e[1] * f[2] >= f[1] * e[2]
FracGt(e, f) == ~IsNaN(e) /\ ~IsNaN(f) /\ e[1] * f[2] > f[1] * e[2]

Squares(s) == [n \in DOMAIN s |-> s[n] * s[n]]

\* ss_between / ss_total of lines 79-88 as an exact fraction.  With group
\* sums S_g, sizes n_g, total sum S, N values and D = N * prod(n_g):
\*   D * ss_between = sum_g S_g^2 * D / n_g - S^2 * D / N
\*   D * ss_total   = D * sum(x^2)           - S^2 * D / N
EtaSquared(groups, values) ==
    LET N == Len(values)
        S == SumSeq(values)
        D == N * ProdSeq([n \in DOMAIN groups |-> Len(groups[n])])
        between == SumSeq([n \in DOMAIN groups |->
                       SumSeq(groups[n]) * SumSeq(groups[n]) * (D \div Len(groups[n]))])
                   - S * S * (D \div N)
        total == D * SumSeq(Squares(values)) - S * S * (D \div N)
    IN  <<between, total>>

\* ss_total == 0: every value equals the overall mean
SsTotalIsZero(values) == \A n, m \in DOMAIN values : values[n] = values[m]

\* calculate_effect_size.  The mean of a column that is not numeric raises
\* (line 76).  The mean of an empty group is NaN, and 0 * NaN is NaN, so one
\* empty group makes ss_between NaN (line 79).
calculate_effect_size(df, dt, categorical_var, continuous_var) ==
    LET clean == DropNA(df, {categorical_var, continuous_var})
        groups == GroupValues(clean, dt, categorical_var, continuous_var)
        values == Column(clean, continuous_var)
    IN  IF Len(clean) < 3 THEN [raised |-> FALSE, value |-> Zero]
        ELSE IF ~IsNumeric(dt, continuous_var)
             THEN [raised |-> TRUE, value |-> Zero]
        ELSE IF SsTotalIsZero(values) THEN [raised |-> FALSE, value |-> Zero]
        ELSE IF \E n \in DOMAIN groups : Len(groups[n]) = 0
             THEN [raised |-> FALSE, value |-> NaN]
        ELSE [raised |-> FALSE, value |-> EtaSquared(groups, values)]

\* p-values the tests may return, in hundredths
PVals == {1, 3, 5}

\* What mannwhitneyu(...) / kruskal(...) may do on the groups: return a
\* p-value, or raise when all the numbers are identical.
LibOutcomes(df, dt, categorical_var, continuous_var) ==
    LET clean == DropNA(df, {categorical_var, continuous_var})
    IN  {[raises |-> FALSE, p |-> p] : p \in PVals}
        \cup IF IsNumeric(dt, continuous_var)
                /\ SsTotalIsZero(Column(clean, continuous_var))
             THEN {[raises |-> TRUE, p |-> 100]}
             ELSE {}

Raise(calls) ==
    [raised |-> TRUE, test_type |-> "", p_value |-> 100, effect_size |-> Zero,
     n_groups |-> 0, total_n |-> 0, error |-> NA, calls |-> calls]

Result(test_type, p_value, effect_size, n_groups, total_n, error, calls) ==
    [raised |-> FALSE, test_type |-> test_type, p_value |-> p_value,
     effect_size |-> effect_size, n_groups |-> n_groups, total_n |-> total_n,
     error |-> error, calls |-> calls]

GroupsKeepingEmpty(df, dt, categorical_var, continuous_var) ==
    GroupValues(df, dt, categorical_var, continuous_var)

\* lines 120-121: the non-empty groups
NonEmptyGroups(df, dt, categorical_var, continuous_var) ==
    SelectSeq(GroupValues(df, dt, categorical_var, continuous_var),
              LAMBDA grp : Len(grp) > 0)

InsufficientDataBelowTwo(clean) == Len(clean) < 2

\* line 109
InsufficientData(clean) == Len(clean) < 3

InsufficientGroupsBelowOne(n_groups) == n_groups < 1

\* line 125
InsufficientGroups(n_groups) == n_groups < 2

\* lines 139-146
TestOfGroups(n_groups) ==
    IF n_groups = 2 THEN "mann_whitney_u" ELSE "kruskal_wallis"

\* perform_statistical_test; lib is what the library test does when called.
\* The field calls lists the functions called on the way; test_statistic is
\* left out.
perform_statistical_test(df, dt, categorical_var, continuous_var, lib) ==
    LET clean == DropNA(df, {categorical_var, continuous_var})
        groups == NonEmptyGroups(clean, dt, categorical_var, continuous_var)
        n_groups == Len(groups)
        effect == calculate_effect_size(clean, dt, categorical_var, continuous_var)
        test == TestOfGroups(n_groups)
    IN  IF InsufficientData(clean)
        THEN Result("insufficient_data", 100, Zero, 0, Len(clean), NA, <<>>)
        ELSE IF InsufficientGroups(n_groups)
        THEN Result("insufficient_groups", 100, Zero, n_groups, Len(clean), NA, <<>>)
        ELSE IF effect.raised
        THEN Raise(<<"calculate_effect_size">>)
        ELSE IF lib.raises
        THEN Result("error", 100, Zero, n_groups, Len(clean), Some("ValueError"),
                    <<"calculate_effect_size", test>>)
        ELSE Result(test, lib.p, effect.value, n_groups, Len(clean), NA,
                    <<"calculate_effect_size", test>>)

CatVals == {"A", "B", "C"}
Row == [g : {Some(c) : c \in CatVals},
        h : {Some(v) : v \in 0..1},
        x : {NA} \cup {Some(v) : v \in 0..1}]

\* the same table with two labels in use out of the three declared
RankRow == [g : {Some("A"), Some("B")},
            h : {Some(v) : v \in 0..1},
            x : {NA} \cup {Some(v) : v \in 0..1}]

\* the dtypes of the columns; g is a text column or a categorical one
Dtypes == [g : {"object", "category"}, h : {"numeric"}, x : {"numeric"}]

\* no call has set anything yet
InitLocals ==
    /\ clean_data = <<>>
    /\ categories = <<>> /\ i = 0 /\ box_data = <<>> /\ outliers_data = <<>>
    /\ series = <<>>
    /\ ci = 1 /\ ki = 1
    /\ results = <<>> /\ results_df = <<>> /\ top_n = 0 /\ top = <<>>
    /\ test_result = NA
    /\ col_idx = 0 /\ violin_series = <<>> /\ chart_title = ""
    /\ kde_results = <<>>
    /\ HeatIdle /\ ServiceIdle

InitData(rows) ==
    /\ data \in SeqsUpTo(rows, MaxRows)
    /\ dtypes \in Dtypes
    /\ InitLocals

\* identify_variable_types as the loop it is, called with both thresholds.
\* A table with missing cells in g and h, or a longer one where h takes up
\* to three values.
ClassRow == [g : {NA, Some("A"), Some("B")},
             h : {NA} \cup {Some(v) : v \in 0..1},
             x : {Some(0)}]
ColumnRow == [g : {Some("A")}, h : {Some(v) : v \in 0..2}, x : {Some(0)}]
Thresholds == {1, 2, 3}
MinObservations == {1, 2}

InitClassify ==
    /\ \/ data \in SeqsUpTo(ClassRow, MaxRows)
       \/ data \in UNION {[1..m -> ColumnRow] : m \in (MaxRows + 1)..MaxColumnRows}
    /\ dtypes \in Dtypes
    /\ InitLocals
    /\ pc = "classify_start"
    /\ categorical_vars = NA /\ continuous_vars = NA
    /\ alpha = Alpha /\ min_effect_size = MinEffectSize
    /\ cat_threshold \in Thresholds /\ min_obs \in MinObservations

\* lines 22-23: the two empty lists
ClassifyStart ==
    /\ pc = "classify_start"
    /\ categorical_vars' = Some(<<>>) /\ continuous_vars' = Some(<<>>)
    /\ col_idx' = 0
    /\ pc' = "classify_loop"
    /\ UNCHANGED <<data, dtypes, boxVars, ci, ki, results, results_df, top_n,
                   top, test_result, paramVars, violinVars>>
    /\ UNCHANGED <<heatVars, svcVars>>

\* lines 25-47: one iteration of the loop over data.columns
ClassifyColumn ==
    /\ pc = "classify_loop"
    /\ col_idx < Len(ColOrder)
    /\ LET role == ColumnRole(data, dtypes, ColOrder[col_idx + 1],
                              cat_threshold, min_obs)
       IN  /\ categorical_vars' =
                  IF role = "categorical"
                  THEN Some(Append(categorical_vars[1], ColOrder[col_idx + 1]))
                  ELSE categorical_vars
           /\ continuous_vars' =
                  IF role = "continuous"
                  THEN Some(Append(continuous_vars[1], ColOrder[col_idx + 1]))
                  ELSE continuous_vars
    /\ col_idx' = col_idx + 1
    /\ UNCHANGED <<pc, data, dtypes, boxVars, ci, ki, results, results_df, top_n,
                   top, test_result, paramVars, violinVars>>
    /\ UNCHANGED <<heatVars, svcVars>>

\* line 49
ClassifyReturn ==
    /\ pc = "classify_loop"
    /\ col_idx = Len(ColOrder)
    /\ pc' = "classify_done"
    /\ UNCHANGED <<data, dtypes, boxVars, rankVars, test_result, paramVars,
                   col_idx, violinVars>>
    /\ UNCHANGED <<heatVars, svcVars>>

NextClassify == ClassifyStart \/ ClassifyColumn \/ ClassifyReturn

SpecClassify == InitClassify /\ [][NextClassify]_vars

InitPair ==
    /\ InitData(Row)
    /\ DefaultParams
    /\ pc = "pair_start"
    /\ categorical_vars = NA /\ continuous_vars = NA

\* one call perform_statistical_test(data, categorical_var, continuous_var)
PerformTest ==
    /\ pc = "pair_start"
    /\ \E c \in Cols : \E k \in Cols \ {c} :
           \E lib \in LibOutcomes(data, dtypes, c, k) :
               test_result' = Some([categorical_var |-> c, continuous_var |-> k,
                                       result |-> perform_statistical_test(
                                                      data, dtypes, c, k, lib)])
    /\ pc' = "pair_done"
    /\ UNCHANGED <<data, dtypes, boxVars, rankVars>>
    /\ UNCHANGED <<paramVars, col_idx, violinVars>>
    /\ UNCHANGED <<heatVars, svcVars>>

NextPair == PerformTest

SpecPair == InitPair /\ [][NextPair]_vars

----------------------------------------------------------------------------
(* find_significant_categorical_continuous_pairs, get_top_significant_pairs *)

\* `given or detected`: None and the empty list are both falsy
OrDetected(given, detected) ==
    IF given = NA \/ given = Some(<<>>) THEN detected ELSE given[1]

ResultRowAlphaInclusive(cat_var, cont_var, r) ==
    [categorical_var |-> cat_var, continuous_var |-> cont_var,
     test_type |-> r.test_type, p_value |-> r.p_value,
     effect_size |-> r.effect_size, n_groups |-> r.n_groups,
     total_n |-> r.total_n,
     significant |-> r.p_value <= alpha,
     meaningful |-> FracGeq(r.effect_size, min_effect_size),
     error |-> r.error]

\* lines 211-226
ResultRow(cat_var, cont_var, r) ==
    [categorical_var |-> cat_var, continuous_var |-> cont_var,
     test_type |-> r.test_type, p_value |-> r.p_value,
     effect_size |-> r.effect_size, n_groups |-> r.n_groups,
     total_n |-> r.total_n,
     significant |-> r.p_value < alpha,
     meaningful |-> FracGeq(r.effect_size, min_effect_size),
     error |-> r.error]

\* sort_values(['p_value', 'effect_size'], ascending=[True, False]): a sorts
\* strictly before b; a NaN effect size sorts last among equal p-values
RowBefore(a, b) ==
    \/ a.p_value < b.p_value
    \/ /\ a.p_value = b.p_value
       /\ \/ ~IsNaN(a.effect_size) /\ IsNaN(b.effect_size)
          \/ FracGt(a.effect_size, b.effect_size)

\* insert row into the sorted rows, after every row it does not sort before
RECURSIVE InsertRow(_, _)
InsertRow(rows, row) ==
    IF rows = <<>> THEN <<row>>
    ELSE IF RowBefore(row, rows[1]) THEN <<row>> \o rows
    ELSE <<rows[1]>> \o InsertRow(Tail(rows), row)

\* the stable sort of lines 237-238
RECURSIVE SortValues(_)
SortValues(rows) ==
    IF rows = <<>> THEN <<>>
    ELSE InsertRow(SortValues(SubSeq(rows, 1, Len(rows) - 1)), rows[Len(rows)])

\* DataFrame.head(n), n >= 0
head(rows, n) == SubSeq(rows, 1, IF n < Len(rows) THEN n ELSE Len(rows))

TopPairsNoFallback(all_results, n) ==
    head(SelectSeq(all_results, LAMBDA r : r.significant /\ r.meaningful), n)

\* lines 267-280
TopPairs(all_results, n) ==
    LET significant_results ==
            SelectSeq(all_results, LAMBDA r : r.significant /\ r.meaningful)
    IN  IF Len(all_results) = 0 THEN <<>>
        ELSE IF Len(significant_results) = 0 THEN head(all_results, n)
        ELSE head(significant_results, n)

\* the role lists of a call, <<categorical_vars, continuous_vars>>: both
\* omitted, one omitted (the other one given, or given empty), both given
\* (a column in both lists; a text column among the continuous ones)
RoleLists == { <<NA, NA>>,
               <<NA, Some(<<"h", "x">>)>>,
               <<NA, Some(<<>>)>>,
               <<Some(<<"g", "h">>), Some(<<"h", "x">>)>>,
               <<Some(<<"g", "h">>), Some(<<"x", "g">>)>> }

InitRank ==
    /\ InitData(RankRow)
    /\ DefaultParams
    /\ pc = "rank_start"
    /\ \E lists \in RoleLists :
           categorical_vars = lists[1] /\ continuous_vars = lists[2]

\* lines 197-203: fill in the role lists that were not given
RankDetect ==
    /\ pc = "rank_start"
    /\ LET detected == identify_variable_types(data, dtypes,
                           DefaultCategoricalThreshold, DefaultMinObservations)
       IN  IF categorical_vars = NA \/ continuous_vars = NA
           THEN /\ categorical_vars' = Some(OrDetected(categorical_vars, detected[1]))
                /\ continuous_vars' = Some(OrDetected(continuous_vars, detected[2]))
           ELSE UNCHANGED <<categorical_vars, continuous_vars>>
    /\ results' = <<>> /\ ci' = 1 /\ ki' = 1
    /\ pc' = "rank_loop"
    /\ UNCHANGED <<data, dtypes, boxVars, results_df, top_n, top, test_result>>
    /\ UNCHANGED <<paramVars, col_idx, violinVars>>
    /\ UNCHANGED <<heatVars, svcVars>>

LoopDone == ci > Len(categorical_vars[1]) \/ Len(continuous_vars[1]) = 0

\* lines 206-228: one iteration of the inner loop.  An exception of
\* perform_statistical_test leaves the function.
RankPair ==
    /\ pc = "rank_loop"
    /\ ~LoopDone
    /\ LET cat_var == categorical_vars[1][ci]
           cont_var == continuous_vars[1][ki]
       IN  IF cat_var # cont_var
           THEN \E lib \in LibOutcomes(data, dtypes, cat_var, cont_var) :
                    LET r == perform_statistical_test(data, dtypes, cat_var,
                                                      cont_var, lib)
                    IN  IF r.raised
                        THEN pc' = "rank_raised" /\ UNCHANGED results
                        ELSE /\ pc' = pc
                             /\ results' = Append(results,
                                               ResultRow(cat_var, cont_var, r))
           ELSE UNCHANGED <<pc, results>>
    /\ IF ki < Len(continuous_vars[1])
       THEN ki' = ki + 1 /\ ci' = ci
       ELSE ki' = 1 /\ ci' = ci + 1
    /\ UNCHANGED <<data, dtypes, boxVars, categorical_vars, continuous_vars,
                   results_df, top_n, top, test_result>>
    /\ UNCHANGED <<paramVars, col_idx, violinVars>>
    /\ UNCHANGED <<heatVars, svcVars>>

\* lines 230-240: the table, sorted, or an empty table
RankSort ==
    /\ pc = "rank_loop"
    /\ LoopDone
    /\ results_df' = IF Len(results) = 0 THEN <<>> ELSE SortValues(results)
    /\ pc' = "rank_sorted"
    /\ UNCHANGED <<data, dtypes, boxVars, categorical_vars, continuous_vars,
                   ci, ki, results, top_n, top, test_result>>
    /\ UNCHANGED <<paramVars, col_idx, violinVars>>
    /\ UNCHANGED <<heatVars, svcVars>>

\* get_top_significant_pairs, lines 267-280, on the table of line 263
TopSelect ==
    /\ pc = "rank_sorted"
    /\ \E n \in 0..MaxTopN :
           /\ top_n' = n
           /\ top' = TopPairs(results_df, n)
    /\ pc' = "top_done"
    /\ UNCHANGED <<data, dtypes, boxVars, categorical_vars, continuous_vars,
                   ci, ki, results, results_df, test_result>>
    /\ UNCHANGED <<paramVars, col_idx, violinVars>>
    /\ UNCHANGED <<heatVars, svcVars>>

NextRank == RankDetect \/ RankPair \/ RankSort \/ TopSelect

SpecRank == InitRank /\ [][NextRank]_vars

\* Calls that pass alpha and min_effect_size, on a table whose column h is
\* constant
FlagRow == [g : {Some("A"), Some("B")},
            h : {Some(0)},
            x : {NA} \cup {Some(v) : v \in 0..1}]
Alphas == {3, 5}
MinEffectSizes == {<<1, 100>>, <<1, 4>>}

InitFlags ==
    /\ InitData(FlagRow)
    /\ pc = "rank_start"
    /\ categorical_vars = Some(<<"g">>) /\ continuous_vars = Some(<<"x", "h">>)
    /\ alpha \in Alphas /\ min_effect_size \in MinEffectSizes
    /\ cat_threshold = DefaultCategoricalThreshold
    /\ min_obs = DefaultMinObservations

SpecFlags == InitFlags /\ [][NextRank]_vars

----------------------------------------------------------------------------
(* src/src/app/plot/corr_heatmap.py: get_corr_heatmap_json *)

\* the variables of the chart and statistics calls
calcVars == <<pc, data, dtypes, boxVars, rankVars, test_result, paramVars,
              col_idx, violinVars>>

\* no chart or statistics call in this run
CalcIdle ==
    /\ data = <<>> /\ dtypes = [g |-> "object", h |-> "object", x |-> "numeric"]
    /\ clean_data = <<>>
    /\ categories = <<>> /\ i = 0 /\ box_data = <<>> /\ outliers_data = <<>>
    /\ series = <<>>
    /\ DefaultParams
    /\ categorical_vars = NA /\ continuous_vars = NA /\ ci = 1 /\ ki = 1
    /\ results = <<>> /\ results_df = <<>> /\ top_n = 0 /\ top = <<>>
    /\ test_result = NA
    /\ col_idx = 0 /\ violin_series = <<>> /\ chart_title = ""
    /\ kde_results = <<>>

\* round(value, 2) of a value in thousandths, in hundredths: to the nearest
\* hundredth, a tie to the even one
Round2(value) ==
    LET q == value \div 10
        r == value % 10
    IN  IF r < 5 THEN q
        ELSE IF r > 5 THEN q + 1
        ELSE IF q % 2 = 0 THEN q ELSE q + 1

InLowerTriangleOrDiagonal(x_idx, y_idx) == x_idx <= y_idx

\* line 25
InLowerTriangle(x_idx, y_idx) == x_idx < y_idx

\* Square matrices with 1.0 on the diagonal, entries in thousandths; the
\* labels are the positions 1..N
CorrVals == {-335, 126}
OffDiagonal(n) == {c \in (1..n) \X (1..n) : c[1] # c[2]}
CorrMatrices ==
    UNION {{[a \in 1..n |-> [b \in 1..n |-> IF a = b THEN 1000 ELSE f[<<a, b>>]]] :
               f \in [OffDiagonal(n) -> CorrVals]} : n \in 0..MaxLabels}

InitCorr ==
    /\ CalcIdle /\ ServiceIdle
    /\ pc = "corr_start"
    /\ corr \in CorrMatrices
    /\ heatmap_data = <<>> /\ heat_data = <<>> /\ hy = 0 /\ hx = 0
    /\ y_categories = <<>> /\ x_categories = <<>>

\* lines 21-22
CorrStart ==
    /\ pc = "corr_start"
    /\ y_categories' = [n \in 1..Len(corr) |-> n]
    /\ x_categories' = [n \in 1..Len(corr) |-> n]
    /\ heat_data' = <<>> /\ hy' = 0 /\ hx' = 0
    /\ pc' = "corr_loop"
    /\ UNCHANGED <<corr, heatmap_data, data, dtypes, boxVars, rankVars, test_result, paramVars,
                   col_idx, violinVars, svcVars>>

\* lines 23-27: one iteration of the inner loop, at row hy and column hx
CorrCell ==
    /\ pc = "corr_loop"
    /\ hy < Len(y_categories)
    /\ heat_data' = IF InLowerTriangle(hx, hy)
                    THEN Append(heat_data,
                                <<hx, hy, Round2(corr[y_categories[hy + 1]][x_categories[hx + 1]])>>)
                    ELSE heat_data
    /\ IF hx + 1 < Len(x_categories)
       THEN hx' = hx + 1 /\ hy' = hy
       ELSE hx' = 0 /\ hy' = hy + 1
    /\ UNCHANGED <<corr, heatmap_data, y_categories, x_categories, calcVars, svcVars>>

\* lines 29-81: the chart around the triplets
CorrReturn ==
    /\ pc = "corr_loop"
    /\ hy = Len(y_categories)
    /\ pc' = "corr_done"
    /\ UNCHANGED <<data, dtypes, boxVars, rankVars, test_result, paramVars,
                   col_idx, violinVars, heatVars, svcVars>>

NextCorr == CorrStart \/ CorrCell \/ CorrReturn

SpecCorr == InitCorr /\ [][NextCorr]_vars

----------------------------------------------------------------------------
(* src/src/app/plot/freq_heatmap.py: get_freq_heatmaps_json, one pair of columns *)

\* An index label is a value with its type: the labels of a text column are
\* strings, those of an integer-coded column are integers. The text is what
\* str() prints.
ObjectTexts == {"a", "b"}
IntTexts == {"0", "1"}
LabelTexts(kind) == IF kind = "int64" THEN IntTexts ELSE ObjectTexts
LabelOrder == <<"0", "1", "a", "b">>

\* Index.astype(str): every label becomes the string that prints it
AsStr(label) == [kind |-> "object", text |-> label.text]

\* the sorted labels of the texts in S, typed as the column is
SortedLabels(S, kind) ==
    LET F[n \in 0..Len(LabelOrder)] ==
            IF n = 0 THEN <<>>
            ELSE IF LabelOrder[n] \in S
                 THEN Append(F[n - 1], [kind |-> kind, text |-> LabelOrder[n]])
                 ELSE F[n - 1]
    IN  F[Len(LabelOrder)]

\* pd.crosstab(data[column_1], data[column_2]): rows with a missing cell are
\* left out, the index and the columns are the observed values in sorted
\* order, each cell counts the rows with that pair of values
Crosstab(rows, kinds) ==
    LET both == {n \in DOMAIN rows : rows[n].column_1 # NA /\ rows[n].column_2 # NA}
        idx  == SortedLabels({rows[n].column_1[1] : n \in both}, kinds.column_1)
        cols == SortedLabels({rows[n].column_2[1] : n \in both}, kinds.column_2)
    IN  [index   |-> idx,
         columns |-> cols,
         counts  |-> [c \in {<<idx[a], cols[b]>> : a \in DOMAIN idx, b \in DOMAIN cols} |->
                         Cardinality({n \in both : /\ rows[n].column_1[1] = c[1].text
                                                    /\ rows[n].column_2[1] = c[2].text})]]

\* heatmap_data.loc[row_label, col_label] finds the cell or raises KeyError
LocFound(table, row_label, col_label) == <<row_label, col_label>> \in DOMAIN table.counts

MaxFreqRows == 3
FreqKinds == {"object", "int64"}

InitFreq ==
    /\ InitLocals
    /\ DefaultParams /\ categorical_vars = NA /\ continuous_vars = NA
    /\ pc = "freq_start"
    /\ dtypes \in [column_1 : FreqKinds, column_2 : FreqKinds]
    /\ data \in SeqsUpTo([column_1 : {NA} \cup {Some(t) : t \in LabelTexts(dtypes.column_1)},
                          column_2 : {NA} \cup {Some(t) : t \in LabelTexts(dtypes.column_2)}],
                         MaxFreqRows)

\* lines 21-26
FreqStart ==
    /\ pc = "freq_start"
    /\ LET table == Crosstab(data, dtypes)
       IN  /\ heatmap_data' = table
           /\ y_categories' = [n \in DOMAIN table.index |-> AsStr(table.index[n])]
           /\ x_categories' = [n \in DOMAIN table.columns |-> AsStr(table.columns[n])]
    /\ heat_data' = <<>> /\ hy' = 0 /\ hx' = 0
    /\ pc' = "freq_loop"
    /\ UNCHANGED <<corr, data, dtypes, boxVars, rankVars, test_result, paramVars,
                   col_idx, violinVars, svcVars>>

\* lines 28-31: one iteration of the inner loop, at row hy and column hx
FreqCell ==
    /\ pc = "freq_loop"
    /\ hy < Len(y_categories)
    /\ LET row_label == y_categories[hy + 1]
           col_label == x_categories[hx + 1]
       IN  IF LocFound(heatmap_data, row_label, col_label)
           THEN /\ heat_data' = Append(heat_data,
                                       <<hx, hy, heatmap_data.counts[<<row_label, col_label>>]>>)
                /\ IF hx + 1 < Len(x_categories)
                   THEN hx' = hx + 1 /\ hy' = hy
                   ELSE hx' = 0 /\ hy' = hy + 1
                /\ pc' = pc
           ELSE /\ pc' = "freq_raised"
                /\ UNCHANGED <<heat_data, hx, hy>>
    /\ UNCHANGED <<corr, heatmap_data, y_categories, x_categories, data, dtypes,
                   boxVars, rankVars, test_result, paramVars, col_idx, violinVars,
                   svcVars>>

\* lines 33-53
FreqReturn ==
    /\ pc = "freq_loop"
    /\ hy = Len(y_categories)
    /\ pc' = "freq_done"
    /\ UNCHANGED <<data, dtypes, boxVars, rankVars, test_result, paramVars,
                   col_idx, violinVars, heatVars, svcVars>>

NextFreq == FreqStart \/ FreqCell \/ FreqReturn

SpecFreq == InitFreq /\ [][NextFreq]_vars

----------------------------------------------------------------------------
(* The web service: src/src/app_production.py (Flask) and src/src/main.py with
   src/src/routers and src/src/storage.py (FastAPI), in development mode *)

\* uuid4 values, and request ids that are not UUIDs
UuidIds == {"550e8400-e29b-41d4-a716-446655440000",
            "6ba7b810-9dad-41d1-80b4-00c04fd430c8"}
MalformedIds == {"invalid-uuid", "123", ""}
RequestIds == UuidIds \cup MalformedIds

\* session_ttl in clock ticks, and the last tick of the clock
SessionTtl == 1
MaxTime == 2

\* A filename is the sequence of its parts between the dots: '' is <<"">>
Filenames == {<<"">>, <<"test", "csv">>, <<"DATA", "CSV">>, <<"test", "txt">>,
              <<"data", "csv", "zip">>, <<"csv">>}
\* the multipart request: no file part, or a file part with its filename
UploadFiles == {NA} \cup {Some(f) : f \in Filenames}

\* str.lower() on the extensions above
Lower(text) == IF text = "CSV" THEN "csv" ELSE text

AllowedExtensions == {"csv"}

allowed_fileCaseSensitive(filename) ==
    /\ Len(filename) > 1
    /\ filename[Len(filename)] \in AllowedExtensions

\* '.' in filename and filename.rsplit('.', 1)[1].lower() in ALLOWED_EXTENSIONS
allowed_file(filename) ==
    /\ Len(filename) > 1
    /\ Lower(filename[Len(filename)]) \in AllowedExtensions

\* The Analyzer built from the upload, as far as the service looks at it:
\* without a dashboard_module, or with one whose _significant_results is
\* that list
NewAnalyzers == {[dashboard_module |-> NA], [dashboard_module |-> Some(<<>>)]}

NoSessions == [id \in UuidIds |-> NA]

Lookup(store, id) == IF id \in DOMAIN store THEN store[id] ELSE NA

\* redis_client.exists / get on a reachable server: the key is there until
\* its time to live has passed
RedisHas(id) ==
    /\ Lookup(redis_store, id) # NA
    /\ now < Lookup(redis_store, id)[1].expires

RedisGet(id) == IF RedisHas(id) THEN Some(redis_store[id][1].analyzer) ELSE NA

\* setex(key, session_ttl, pickle.dumps(analyzer))
RedisSetex(id, analyzer) ==
    [redis_store EXCEPT ![id] = Some([analyzer |-> analyzer, expires |-> now + SessionTtl])]

Response(op, id, status, detail) ==
    [op |-> op, id |-> id, status |-> status, detail |-> detail,
     request |-> NA, health |-> NA, analyzer |-> NA, analyzer_id |-> "",
     expires_at |-> 0]

\* the answer to an upload, with the file part it answers and whether
\* pd.read_csv and Analyzer accept the content
UploadResponse(file, parses, status, detail) ==
    [Response("upload", "", status, detail) EXCEPT
        !.request = Some([file |-> file, parses |-> parses])]

\* what the upload answered for each id, and whether a DELETE has answered 200
Session(analyzer) ==
    Some([analyzer |-> analyzer, created_at |-> now, expires_at |-> now + SessionTtl,
          deleted |-> FALSE])

MarkDeleted(id) ==
    IF Lookup(sessions, id) = NA THEN sessions
    ELSE [sessions EXCEPT ![id] = Some([sessions[id][1] EXCEPT !.deleted = TRUE])]

HealthBodyAlwaysHealthy(redis_selected, ping_ok) ==
    [status  |-> "healthy",
     storage |-> IF redis_selected THEN "redis" ELSE "memory",
     redis   |-> IF redis_selected
                 THEN IF ping_ok THEN "connected" ELSE "disconnected"
                 ELSE "none",
     timestamp |-> now]

\* app_production.py lines 371-383, storage.py lines 162-176
HealthBody(redis_selected, ping_ok) ==
    [status  |-> IF redis_selected /\ ~ping_ok THEN "degraded" ELSE "healthy",
     storage |-> IF redis_selected THEN "redis" ELSE "memory",
     redis   |-> IF redis_selected
                 THEN IF ping_ok THEN "connected" ELSE "disconnected"
                 ELSE "none",
     timestamp |-> now]

InitService(name) ==
    /\ CalcIdle /\ HeatIdle
    /\ pc = "serving"
    /\ app = name
    /\ redis_up \in BOOLEAN
    /\ use_redis = redis_up
    /\ redis_store = NoSessions /\ analyzers = NoSessions /\ sessions = NoSessions
    /\ now = 0
    /\ req = NA /\ resp = NA

\* the clock, and the Redis server becoming unreachable or reachable again
Tick ==
    /\ now < MaxTime
    /\ now' = now + 1
    /\ UNCHANGED <<app, use_redis, redis_up, redis_store, analyzers, sessions, req, resp,
                   calcVars, heatVars>>

RedisDown ==
    /\ redis_up
    /\ redis_up' = FALSE
    /\ UNCHANGED <<app, use_redis, redis_store, analyzers, now, sessions, req, resp,
                   calcVars, heatVars>>

RedisUp ==
    /\ ~redis_up
    /\ redis_up' = TRUE
    /\ UNCHANGED <<app, use_redis, redis_store, analyzers, now, sessions, req, resp,
                   calcVars, heatVars>>

(* app_production.py *)

\* lines 56-74: always asks the Redis client, whichever backend was selected
FlaskCheck(id) == redis_up /\ RedisHas(id)

\* lines 88-96
FlaskGet(id) == IF use_redis THEN RedisGet(id) ELSE Lookup(analyzers, id)

\* lines 128-182
FlaskUpload ==
    /\ app = "flask"
    /\ \E file \in UploadFiles, parses \in BOOLEAN, analyzer \in NewAnalyzers, id \in UuidIds :
          IF file = NA
          THEN /\ resp' = Some(UploadResponse(file, parses, 400, "No file part in request"))
               /\ UNCHANGED <<redis_store, analyzers, sessions>>
          ELSE IF file[1] = <<"">>
          THEN /\ resp' = Some(UploadResponse(file, parses, 400, "No file selected"))
               /\ UNCHANGED <<redis_store, analyzers, sessions>>
          ELSE IF ~allowed_file(file[1])
          THEN /\ resp' = Some(UploadResponse(file, parses, 400, "Only CSV files are allowed"))
               /\ UNCHANGED <<redis_store, analyzers, sessions>>
          ELSE IF ~parses \/ (use_redis /\ ~redis_up)
          THEN /\ resp' = Some(UploadResponse(file, parses, 500, "Internal Server Error"))
               /\ UNCHANGED <<redis_store, analyzers, sessions>>
          ELSE /\ sessions[id] = NA
               /\ IF use_redis
                  THEN redis_store' = RedisSetex(id, analyzer) /\ UNCHANGED analyzers
                  ELSE analyzers' = [analyzers EXCEPT ![id] = Some(analyzer)]
                       /\ UNCHANGED redis_store
               /\ sessions' = [sessions EXCEPT ![id] = Session(analyzer)]
               /\ resp' = Some([UploadResponse(file, parses, 201, "") EXCEPT
                                   !.analyzer_id = id, !.expires_at = now + SessionTtl])
    /\ UNCHANGED <<app, use_redis, redis_up, now, req, calcVars, heatVars>>

\* lines 340-357
FlaskAnalyzerInfo ==
    /\ app = "flask"
    /\ \E id \in RequestIds :
          resp' = IF ~FlaskCheck(id)
                  THEN Some(Response("analyzer_info", id, 404, "Analyzer not found"))
                  ELSE IF FlaskGet(id) = NA
                  THEN Some(Response("analyzer_info", id, 500, "Failed"))
                  ELSE Some([Response("analyzer_info", id, 200, "") EXCEPT
                                !.analyzer = FlaskGet(id)])
    /\ UNCHANGED <<app, use_redis, redis_up, redis_store, analyzers, now, sessions, req,
                   calcVars, heatVars>>

\* lines 187-211: the chart is built by the plot module, or building it fails
FlaskCorrelationHeatmap ==
    /\ app = "flask"
    /\ \E id \in RequestIds, built \in BOOLEAN :
          resp' = IF ~FlaskCheck(id)
                  THEN Some(Response("correlation_heatmap", id, 404, "Analyzer not found"))
                  ELSE IF FlaskGet(id) = NA \/ ~built
                  THEN Some(Response("correlation_heatmap", id, 500, "Failed"))
                  ELSE Some(Response("correlation_heatmap", id, 200, ""))
    /\ UNCHANGED <<app, use_redis, redis_up, redis_store, analyzers, now, sessions, req,
                   calcVars, heatVars>>

\* lines 98-106 and 359-366
FlaskDelete ==
    /\ app = "flask"
    /\ \E id \in RequestIds :
          IF use_redis /\ ~redis_up
          THEN /\ resp' = Some(Response("delete", id, 500, "Internal Server Error"))
               /\ UNCHANGED <<redis_store, analyzers, sessions>>
          ELSE IF (IF use_redis THEN RedisHas(id) ELSE Lookup(analyzers, id) # NA)
          THEN /\ IF use_redis
                  THEN redis_store' = [redis_store EXCEPT ![id] = NA] /\ UNCHANGED analyzers
                  ELSE analyzers' = [analyzers EXCEPT ![id] = NA] /\ UNCHANGED redis_store
               /\ sessions' = MarkDeleted(id)
               /\ resp' = Some(Response("delete", id, 200, "deleted successfully"))
          ELSE /\ resp' = Some(Response("delete", id, 404, "Analyzer not found"))
               /\ UNCHANGED <<redis_store, analyzers, sessions>>
    /\ UNCHANGED <<app, use_redis, redis_up, now, req, calcVars, heatVars>>

\* lines 368-385
FlaskHealth ==
    /\ app = "flask"
    /\ resp' = Some([Response("health", "", 200, "") EXCEPT
                        !.health = Some(HealthBody(use_redis, redis_up))])
    /\ UNCHANGED <<app, use_redis, redis_up, redis_store, analyzers, now, sessions, req,
                   calcVars, heatVars>>

NextFlask ==
    \/ FlaskUpload \/ FlaskAnalyzerInfo \/ FlaskCorrelationHeatmap \/ FlaskDelete
    \/ FlaskHealth \/ Tick \/ RedisDown \/ RedisUp

SpecFlask == InitService("flask") /\ [][NextFlask]_vars

(* main.py, routers/*.py and storage.py *)

\* storage.py lines 140-142 with 44-50 and 84-86
StorageExists(id) ==
    IF use_redis THEN redis_up /\ RedisHas(id) ELSE Lookup(analyzers, id) # NA

\* storage.py lines 148-150 with 61-66 and 92-94: the memory backend hands
\* out the stored object, the Redis backend a copy
StorageGet(id) == IF use_redis THEN RedisGet(id) ELSE Lookup(analyzers, id)

\* the ids of the requests: the UUIDs and one id that is not a UUID
ApiIds == UuidIds \cup {"invalid-uuid"}

\* the GET endpoints that look an analyzer up
Endpoints == {"correlation_heatmap", "frequency_heatmap", "pie_chart",
              "umap_scatterplot", "analyzer_info", "dashboard"}

\* whether the handler raises its second 404 inside the try block whose
\* except clause answers 500: visualization.py lines 33-44, analyzers.py
\* lines 40-58
NotFoundInsideTry(endpoint) == endpoint \in {"correlation_heatmap", "analyzer_info"}

\* what the handler can answer once it holds the analyzer
Outcomes(endpoint) ==
    IF endpoint = "analyzer_info" THEN {200}
    ELSE IF endpoint \in {"frequency_heatmap", "umap_scatterplot"} THEN {200, 400, 500}
    ELSE {200, 500}

\* plot/dashboard.py lines 33-58: the analyzer after get_dashboard_json, when
\* find_top_multiplots returned computed
AfterDashboard(analyzer, computed) ==
    IF analyzer.dashboard_module # NA /\ analyzer.dashboard_module[1] = <<>>
    THEN [analyzer EXCEPT !.dashboard_module = Some(computed)]
    ELSE analyzer

\* routers/upload.py lines 59-117; a request without the file part is
\* answered by the framework before the handler runs
ApiUpload ==
    /\ app = "fastapi" /\ req = NA
    /\ \E file \in UploadFiles, parses \in BOOLEAN, analyzer \in NewAnalyzers, id \in UuidIds :
          IF file = NA
          THEN /\ resp' = Some(UploadResponse(file, parses, 422, "Field required"))
               /\ UNCHANGED <<redis_store, analyzers, sessions>>
          ELSE IF file[1] = <<"">>
          THEN /\ resp' = Some(UploadResponse(file, parses, 400, "No file selected"))
               /\ UNCHANGED <<redis_store, analyzers, sessions>>
          ELSE IF ~allowed_file(file[1])
          THEN /\ resp' = Some(UploadResponse(file, parses, 400, "Only CSV files are allowed"))
               /\ UNCHANGED <<redis_store, analyzers, sessions>>
          ELSE IF ~parses \/ (use_redis /\ ~redis_up)
          THEN /\ resp' = Some(UploadResponse(file, parses, 500, "Failed to process file"))
               /\ UNCHANGED <<redis_store, analyzers, sessions>>
          ELSE /\ sessions[id] = NA
               /\ IF use_redis
                  THEN redis_store' = RedisSetex(id, analyzer) /\ UNCHANGED analyzers
                  ELSE analyzers' = [analyzers EXCEPT ![id] = Some(analyzer)]
                       /\ UNCHANGED redis_store
               /\ sessions' = [sessions EXCEPT ![id] = Session(analyzer)]
               /\ resp' = Some([UploadResponse(file, parses, 201, "") EXCEPT
                                   !.analyzer_id = id, !.expires_at = now + SessionTtl])
    /\ UNCHANGED <<app, use_redis, redis_up, now, req, calcVars, heatVars>>

\* the first storage call of a GET handler: check_analyzer
ApiCheck ==
    /\ app = "fastapi" /\ req = NA
    /\ \E endpoint \in Endpoints, id \in ApiIds :
          IF StorageExists(id)
          THEN /\ req' = Some([endpoint |-> endpoint, id |-> id])
               /\ UNCHANGED resp
          ELSE /\ resp' = Some(Response(endpoint, id, 404, "Analyzer not found"))
               /\ UNCHANGED req
    /\ UNCHANGED <<app, use_redis, redis_up, redis_store, analyzers, now, sessions,
                   calcVars, heatVars>>

\* the rest of the handler: get_analyzer, the second 404, the chart
ApiFetch ==
    /\ app = "fastapi" /\ req # NA
    /\ LET endpoint == req[1].endpoint
           id == req[1].id
       IN  IF use_redis /\ ~redis_up
           THEN /\ resp' = Some(Response(endpoint, id, 500, "Failed"))
                /\ UNCHANGED analyzers
           ELSE IF StorageGet(id) = NA
           THEN /\ resp' = Some(Response(endpoint, id,
                                         IF NotFoundInsideTry(endpoint) THEN 500 ELSE 404,
                                         IF NotFoundInsideTry(endpoint) THEN "Failed"
                                         ELSE "Analyzer not found"))
                /\ UNCHANGED analyzers
           ELSE \E status \in Outcomes(endpoint), computed \in {<<>>, <<"pair">>} :
                /\ resp' = Some([Response(endpoint, id, status,
                                          IF status = 200 THEN "" ELSE "Failed") EXCEPT
                                    !.analyzer = StorageGet(id)])
                /\ analyzers' = IF endpoint = "dashboard" /\ status = 200 /\ ~use_redis
                                THEN [analyzers EXCEPT
                                        ![id] = Some(AfterDashboard(StorageGet(id)[1], computed))]
                                ELSE analyzers
    /\ req' = NA
    /\ UNCHANGED <<app, use_redis, redis_up, redis_store, now, sessions, calcVars, heatVars>>

\* routers/analyzers.py lines 61-70
ApiDelete ==
    /\ app = "fastapi" /\ req = NA
    /\ \E id \in ApiIds :
          IF use_redis /\ ~redis_up
          THEN /\ resp' = Some(Response("delete", id, 500, "Internal Server Error"))
               /\ UNCHANGED <<redis_store, analyzers, sessions>>
          ELSE IF StorageExists(id)
          THEN /\ IF use_redis
                  THEN redis_store' = [redis_store EXCEPT ![id] = NA] /\ UNCHANGED analyzers
                  ELSE analyzers' = [analyzers EXCEPT ![id] = NA] /\ UNCHANGED redis_store
               /\ sessions' = MarkDeleted(id)
               /\ resp' = Some(Response("delete", id, 200, "deleted successfully"))
          ELSE /\ resp' = Some(Response("delete", id, 404, "Analyzer not found"))
               /\ UNCHANGED <<redis_store, analyzers, sessions>>
    /\ UNCHANGED <<app, use_redis, redis_up, now, req, calcVars, heatVars>>

\* routers/health.py lines 21-36
ApiHealth ==
    /\ app = "fastapi" /\ req = NA
    /\ resp' = Some([Response("health", "", 200, "") EXCEPT
                        !.health = Some(HealthBody(use_redis, redis_up))])
    /\ UNCHANGED <<app, use_redis, redis_up, redis_store, analyzers, now, sessions, req,
                   calcVars, heatVars>>

NextApi ==
    \/ ApiUpload \/ ApiCheck \/ ApiFetch \/ ApiDelete \/ ApiHealth
    \/ Tick \/ RedisDown \/ RedisUp

SpecApi == InitService("fastapi") /\ [][NextApi]_vars

\* either application
NextService ==
    \/ FlaskUpload \/ FlaskAnalyzerInfo \/ FlaskCorrelationHeatmap \/ FlaskDelete
    \/ FlaskHealth
    \/ ApiUpload \/ ApiCheck \/ ApiFetch \/ ApiDelete \/ ApiHealth
    \/ Tick \/ RedisDown \/ RedisUp

SpecService == (InitService("flask") \/ InitService("fastapi")) /\ [][NextService]_vars

----------------------------------------------------------------------------
(* Claims about get_box_plot_json, stated on the rows and the emitted
   tuples only *)

\* the complete rows of the data, whatever the call has done so far
Complete == SelectSeq(data, LAMBDA r : r.g # NA /\ r.x # NA)

\* the observations of the category at position idx (0-based) of the axis
GroupOf(idx) ==
    LET present == SelectSeq(CatOrder,
                       LAMBDA c : \E n \in DOMAIN Complete : Complete[n].g = Some(c))
    IN  SelectSeq(Complete, LAMBDA r : r.g = Some(present[idx + 1]))

Count(s, e) == Cardinality({n \in DOMAIN s : s[n] = e})

\* C1 (as claimed): every emitted box tuple [index, whisker_min, q1, median,
\* q3, whisker_max] has whisker_min <= q1 <= median <= q3 <= whisker_max.
C1_BoxOrdered ==
    \A n \in DOMAIN box_data :
        LET b == box_data[n]
        IN  b[2] <= b[3] /\ b[3] <= b[4] /\ b[4] <= b[5] /\ b[5] <= b[6]

\* C2: every outlier point of a group is strictly below the group's
\* whisker_min or strictly above its whisker_max; each observation outside
\* the fences q1 - 1.5*IQR, q3 + 1.5*IQR of the group's tuple is one point of
\* its own (duplicates included); every other observation of the group lies
\* within [whisker_min, whisker_max] and is no outlier point.
C2_OutliersOutsideWhiskers ==
    \A n \in DOMAIN box_data :
        LET b   == box_data[n]
            grp == GroupOf(b[1])
            lo  == b[3] - (3 * (b[5] - b[3])) \div 2
            hi  == b[5] + (3 * (b[5] - b[3])) \div 2
        IN  /\ \A m \in DOMAIN outliers_data :
                   outliers_data[m][1] = b[1]
                       => \/ outliers_data[m][2] < b[2]
                          \/ outliers_data[m][2] > b[6]
            /\ \A v \in BoxVals :
                   LET obs == Cardinality({k \in DOMAIN grp : grp[k].x = Some(v)})
                   IN  IF 8 * v < lo \/ 8 * v > hi
                       THEN Count(outliers_data, <<b[1], 8 * v>>) = obs
                       ELSE /\ Count(outliers_data, <<b[1], 8 * v>>) = 0
                            /\ obs > 0 => (b[2] <= 8 * v /\ 8 * v <= b[6])

\* a finished chart where one group has two equal outliers
C2_Witness ==
    /\ pc = "box_done"
    /\ \E m, k \in DOMAIN outliers_data :
           m # k /\ outliers_data[m] = outliers_data[k]

\* a finished chart with an outlier below and an outlier above the whiskers
C2_WitnessBothSides ==
    /\ pc = "box_done"
    /\ \E n \in DOMAIN box_data, m, k \in DOMAIN outliers_data :
           /\ outliers_data[m][1] = box_data[n][1]
           /\ outliers_data[k][1] = box_data[n][1]
           /\ outliers_data[m][2] < box_data[n][2]
           /\ outliers_data[k][2] > box_data[n][6]

----------------------------------------------------------------------------
(* Claims about perform_statistical_test, stated on the dataset and the
   returned record only *)

Tested == test_result[1]
Returned == pc = "pair_done" /\ ~Tested.result.raised

\* the rows of the data complete in both columns of the tested pair
CompleteRows ==
    SelectSeq(data, LAMBDA r : r[Tested.categorical_var] # NA
                               /\ r[Tested.continuous_var] # NA)

\* the number of categorical values that occur in the complete rows
GroupCount ==
    Cardinality({CompleteRows[n][Tested.categorical_var] : n \in DOMAIN CompleteRows})

InUnitInterval(e) == FracGeq(e, Zero) /\ FracGeq(<<1, 1>>, e)

\* C5 (as claimed): with at least 3 complete rows, exactly 2 non-empty groups
\* give test_type mann_whitney_u and 3 or more give kruskal_wallis; n_groups
\* and total_n are the number of non-empty groups and of complete rows.
C5_TestFromGroupCount ==
    (Returned /\ Len(CompleteRows) >= 3 /\ GroupCount >= 2)
        => /\ Tested.result.test_type =
                  (IF GroupCount = 2 THEN "mann_whitney_u" ELSE "kruskal_wallis")
           /\ Tested.result.n_groups = GroupCount
           /\ Tested.result.total_n = Len(CompleteRows)

\* C5 (amended): with at least 3 complete rows and at least 2 non-empty
\* groups, a returned result is either the test chosen from the number of
\* non-empty groups (2: mann_whitney_u, 3 or more: kruskal_wallis), or, when
\* that test raised, test_type error with p_value 1.0, effect_size 0.0 and
\* the message; n_groups and total_n are the number of non-empty groups and
\* of complete rows in both cases.
C5_TestFromGroupCountOrError ==
    (Returned /\ Len(CompleteRows) >= 3 /\ GroupCount >= 2)
        => LET r == Tested.result
               chosen == IF GroupCount = 2 THEN "mann_whitney_u" ELSE "kruskal_wallis"
           IN  /\ r.n_groups = GroupCount
               /\ r.total_n = Len(CompleteRows)
               /\ r.calls = <<"calculate_effect_size", chosen>>
               /\ \/ r.test_type = chosen /\ r.error = NA
                  \/ /\ r.test_type = "error" /\ r.error # NA
                     /\ r.p_value = 100 /\ r.effect_size = Zero

\* a Mann-Whitney result on a "category" column with an unobserved category
C5_Witness ==
    /\ Returned
    /\ Tested.categorical_var = "g" /\ dtypes.g = "category"
    /\ GroupCount = 2 /\ Len(CompleteRows) = 3
    /\ Tested.result.test_type = "mann_whitney_u"

\* C6: fewer than 3 complete rows give insufficient_data with p_value 1.0,
\* effect_size 0.0, n_groups 0 and total_n the number of complete rows,
\* whatever the number of groups; nothing is raised.
C6_InsufficientData ==
    (pc = "pair_done" /\ Len(CompleteRows) < 3)
        => LET r == Tested.result
           IN  /\ ~r.raised
               /\ r.test_type = "insufficient_data"
               /\ r.p_value = 100 /\ r.effect_size = Zero
               /\ r.n_groups = 0 /\ r.total_n = Len(CompleteRows)

\* two complete rows in a single group: the row check comes first
C6_Witness ==
    /\ pc = "pair_done"
    /\ Len(CompleteRows) = 2 /\ GroupCount = 1
    /\ Tested.result.test_type = "insufficient_data"

\* C7: at least 3 complete rows in fewer than 2 non-empty groups give
\* insufficient_groups with p_value 1.0 and effect_size 0.0; neither the
\* effect size nor a test is computed, and nothing is raised.
C7_InsufficientGroups ==
    (pc = "pair_done" /\ Len(CompleteRows) >= 3 /\ GroupCount < 2)
        => LET r == Tested.result
           IN  /\ ~r.raised
               /\ r.test_type = "insufficient_groups"
               /\ r.p_value = 100 /\ r.effect_size = Zero
               /\ r.n_groups = GroupCount /\ r.total_n = Len(CompleteRows)
               /\ r.calls = <<>>

\* three rows in one group of a text column used as the continuous column
C7_Witness ==
    /\ pc = "pair_done"
    /\ Len(CompleteRows) = 3 /\ GroupCount = 1
    /\ Tested.continuous_var = "g"
    /\ Tested.result.test_type = "insufficient_groups"

\* C8 (as claimed): for any two columns of the dataset the call returns a
\* structured result and never raises.
C8_NeverRaises ==
    pc = "pair_done" => ~Tested.result.raised

\* C10 (as claimed): with at least 2 groups and at least 3 complete rows the
\* returned effect size lies in [0, 1], and it is 0.0 when all the continuous
\* values are identical.
C10_EffectInUnitInterval ==
    (Returned /\ Len(CompleteRows) >= 3 /\ GroupCount >= 2)
        => /\ InUnitInterval(Tested.result.effect_size)
           /\ (\A n, m \in DOMAIN CompleteRows :
                   CompleteRows[n][Tested.continuous_var]
                       = CompleteRows[m][Tested.continuous_var])
                  => Tested.result.effect_size = Zero

----------------------------------------------------------------------------
(* Claims about the ranked table and its top rows *)

RankReturned == pc \in {"rank_sorted", "top_done"}

\* the rows flagged both significant and meaningful, in table order
Flagged == SelectSeq(results_df, LAMBDA r : r.significant /\ r.meaningful)

IsPrefix(s, t) == Len(s) <= Len(t) /\ \A n \in DOMAIN s : s[n] = t[n]

\* C3: the rows returned by get_top_significant_pairs are the first top_n
\* rows (all of them when there are fewer) of the flagged rows of the ranked
\* table, or of the whole ranked table when no row is flagged; never more
\* than top_n rows, in ranked order, and none when the table is empty.
C3_TopRows ==
    pc = "top_done"
        => LET source == IF Len(Flagged) = 0 THEN results_df ELSE Flagged
           IN  /\ IsPrefix(top, source)
               /\ Len(top) = (IF top_n < Len(source) THEN top_n ELSE Len(source))
               /\ Len(top) <= top_n
               /\ results_df = <<>> => top = <<>>

\* the fallback: no row is flagged and the top rows come from the whole table
C3_Witness ==
    /\ pc = "top_done"
    /\ Len(results_df) > top_n /\ top_n > 0
    /\ Flagged = <<>>
    /\ Len(top) = top_n

\* the filter: a flagged row is returned ahead of an unflagged first row
C3_WitnessFiltered ==
    /\ pc = "top_done"
    /\ Flagged # <<>> /\ top # <<>>
    /\ top[1] # results_df[1]

RolePairs ==
    {<<c, k>> \in Range(categorical_vars[1]) \X Range(continuous_vars[1]) : c # k}

RowsOf(pair) ==
    {n \in DOMAIN results_df : /\ results_df[n].categorical_var = pair[1]
                               /\ results_df[n].continuous_var = pair[2]}

\* C9 (as claimed): the call never stops at a failing pair, and its table
\* has exactly one row for each pair (c, k) of the role lists with c # k and
\* no other row.
C9_OneRowPerPair ==
    /\ pc # "rank_raised"
    /\ RankReturned
           => /\ \A pair \in RolePairs : Cardinality(RowsOf(pair)) = 1
              /\ Len(results_df) = Cardinality(RolePairs)

----------------------------------------------------------------------------
(* Claims about the role lists and the flags of
   find_significant_categorical_continuous_pairs *)

\* C11 (as claimed): a role list is derived with identify_variable_types
\* only when the caller omitted it; a list the caller gave, the empty list
\* included and also when the other list is omitted, is the list the loops
\* run over.
C11_GivenListsUsed ==
    [][(pc = "rank_start" /\ pc' = "rank_loop")
          => LET detected == identify_variable_types(data, dtypes,
                                 DefaultCategoricalThreshold, DefaultMinObservations)
             IN  /\ categorical_vars' =
                        IF categorical_vars = NA THEN Some(detected[1])
                        ELSE categorical_vars
                 /\ continuous_vars' =
                        IF continuous_vars = NA THEN Some(detected[2])
                        ELSE continuous_vars]_vars

\* C12: in every row, significant is p_value < alpha (strict) and meaningful
\* is effect_size >= min_effect_size (not strict), of the row's own p_value
\* and effect_size, whatever the row's test_type.
C12_Flags ==
    \A n \in DOMAIN results :
        LET r == results[n]
            e == r.effect_size
        IN  /\ r.significant <=> r.p_value < alpha
            /\ r.meaningful <=>
                   (e[2] > 0 /\ e[1] * min_effect_size[2] >= min_effect_size[1] * e[2])

\* a sorted table with a row whose p_value is alpha and whose effect size is
\* min_effect_size: not significant, meaningful; and an error row
C12_Witness ==
    /\ pc = "rank_sorted"
    /\ \E n \in DOMAIN results :
           /\ results[n].p_value = alpha
           /\ results[n].effect_size[2] > 0
           /\ results[n].effect_size[1] * min_effect_size[2]
                  = min_effect_size[1] * results[n].effect_size[2]
           /\ ~results[n].significant /\ results[n].meaningful
    /\ \E n \in DOMAIN results : results[n].test_type = "error"

----------------------------------------------------------------------------
(* Claims about identify_variable_types, stated on the table and the two
   returned lists *)

Classified == pc = "classify_done"

Missing(c) == Cardinality({n \in DOMAIN data : data[n][c] = NA})
Skipped(c) == 2 * Missing(c) > Len(data)
Distinct(c) == {data[n][c] : n \in DOMAIN data} \ {NA}
Occurrences(c, v) == Cardinality({n \in DOMAIN data : data[n][c] = v})
FewAndFrequent(c) ==
    /\ Cardinality(Distinct(c)) <= cat_threshold
    /\ \A v \in Distinct(c) : Occurrences(c, v) >= min_obs

NoRepeat(s) == \A n, m \in DOMAIN s : s[n] = s[m] => n = m

\* C13: no column name is in both returned lists, none is twice in a list,
\* and a column with more than half of its cells missing is in neither.
C13_OneRolePerColumn ==
    Classified =>
        /\ Range(categorical_vars[1]) \cap Range(continuous_vars[1]) = {}
        /\ NoRepeat(categorical_vars[1]) /\ NoRepeat(continuous_vars[1])
        /\ Range(categorical_vars[1]) \cup Range(continuous_vars[1]) \subseteq Cols
        /\ \A c \in Cols :
               Skipped(c) => /\ c \notin Range(categorical_vars[1])
                             /\ c \notin Range(continuous_vars[1])

\* a call that returns a categorical column, a continuous one, and leaves
\* out a column with more than half of its cells missing
C13_Witness ==
    /\ Classified
    /\ Skipped("g") /\ Missing("g") < Len(data)
    /\ categorical_vars[1] # <<>> /\ continuous_vars[1] # <<>>

\* C14: a numeric column that is not skipped is Categorical exactly when it
\* has at most categorical_threshold distinct values and every value occurs
\* at least min_observations times; otherwise it is Continuous.
C14_NumericRole ==
    Classified =>
        \A c \in {"h", "x"} :
            ~Skipped(c) =>
                /\ c \in Range(categorical_vars[1]) <=> FewAndFrequent(c)
                /\ c \in Range(continuous_vars[1]) <=> ~FewAndFrequent(c)

\* a numeric column with three values, each frequent enough: Categorical
C14_Witness ==
    /\ Classified
    /\ Cardinality(Distinct("h")) = 3 /\ cat_threshold = 3 /\ min_obs = 2
    /\ "h" \in Range(categorical_vars[1])

\* the same column with one value occurring once: Continuous
C14_WitnessRareValue ==
    /\ Classified
    /\ Cardinality(Distinct("h")) = 3 /\ cat_threshold = 3 /\ min_obs = 2
    /\ \E v \in Distinct("h") : Occurrences("h", v) = 1
    /\ "h" \in Range(continuous_vars[1])

\* C15 (as claimed): a column that is not numeric is never Continuous; when
\* not skipped it is Categorical exactly when it has at most
\* categorical_threshold distinct values and every group has at least
\* min_observations rows, and otherwise it is in neither list.
C15_TextRole ==
    Classified =>
        /\ "g" \notin Range(continuous_vars[1])
        /\ ~Skipped("g") =>
               ("g" \in Range(categorical_vars[1]) <=> FewAndFrequent("g"))

----------------------------------------------------------------------------
(* Claims about the boxes, the quartiles and the series of get_box_plot_json *)

\* the categories of the complete rows, sorted
Present ==
    SelectSeq(CatOrder, LAMBDA c : \E n \in DOMAIN Complete : Complete[n].g = Some(c))

TuplesAt(idx) == {n \in DOMAIN box_data : box_data[n][1] = idx}
PointsAt(idx) == {n \in DOMAIN outliers_data : outliers_data[n][1] = idx}

\* C16: the axis lists every category of the complete rows, sorted; a
\* category with exactly one complete observation has no box tuple and no
\* outlier point; a category with more than one has exactly one tuple, whose
\* index is the category's position on that axis.
C16_SingletonSkipped ==
    pc = "box_done" =>
        /\ categories = Present
        /\ \A idx \in 0..(Len(Present) - 1) :
               IF Len(GroupOf(idx)) > 1
               THEN Cardinality(TuplesAt(idx)) = 1
               ELSE TuplesAt(idx) = {} /\ PointsAt(idx) = {}
        /\ \A n \in DOMAIN box_data : box_data[n][1] \in 0..(Len(Present) - 1)

\* a chart whose first category has one observation and whose second has a
\* box, at index 1
C16_Witness ==
    /\ pc = "box_done"
    /\ Len(categories) = 2
    /\ Len(GroupOf(0)) = 1 /\ Len(GroupOf(1)) > 1
    /\ Len(box_data) = 1 /\ box_data[1][1] = 1

\* the k-th quartile of the sorted values xs by linear interpolation, in
\* eighths: position (n-1)*k/4 between two neighbours
Percentile8(xs, k) ==
    LET pos4 == (Len(xs) - 1) * k
        lo == xs[pos4 \div 4 + 1]
        hi == xs[IF pos4 \div 4 + 2 <= Len(xs) THEN pos4 \div 4 + 2 ELSE Len(xs)]
    IN  8 * lo + 2 * (pos4 % 4) * (hi - lo)

\* C17: in every box tuple q1, median and q3 are the 25th, 50th and 75th
\* percentiles of the group by linear interpolation, and the whiskers are
\* the least and the greatest value within the fences q1 - 1.5*IQR and
\* q3 + 1.5*IQR; the values 1, 2, 3, 4, 5, 100 give q1 = 2.25, median = 3.5,
\* q3 = 4.75, whisker_max = 5 and the single outlier 100.
C17_Quartiles ==
    \A n \in DOMAIN box_data :
        LET b  == box_data[n]
            xs == Sorted([k \in DOMAIN GroupOf(b[1]) |-> GroupOf(b[1])[k].x[1]])
            lo == 2 * b[3] - 3 * (b[5] - b[3])
            hi == 2 * b[5] + 3 * (b[5] - b[3])
            inside == {v \in Range(xs) : 16 * v >= lo /\ 16 * v <= hi}
        IN  /\ b[3] = Percentile8(xs, 1)
            /\ b[4] = Percentile8(xs, 2)
            /\ b[5] = Percentile8(xs, 3)
            /\ inside # {} =>
                   /\ \E v \in inside : b[2] = 8 * v /\ \A w \in inside : v <= w
                   /\ \E v \in inside : b[6] = 8 * v /\ \A w \in inside : v >= w
            /\ xs = ScenarioValues =>
                   /\ b[3] = 18 /\ b[4] = 28 /\ b[5] = 38 /\ b[6] = 40
                   /\ pc = "box_done" => outliers_data = <<<<b[1], 800>>>>

\* the chart of the values 1, 2, 3, 4, 5, 100
C17_Witness ==
    /\ pc = "box_done"
    /\ data \in ScenarioTables
    /\ box_data = <<<<0, 8, 18, 28, 38, 40>>>>
    /\ outliers_data = <<<<0, 800>>>>

\* the observations of the groups with a box that lie outside the group's
\* fences, as <<row of the group, index>> pairs
OutOfFence ==
    UNION {{<<k, box_data[n][1]>> : k \in
               {k \in DOMAIN GroupOf(box_data[n][1]) :
                   LET b == box_data[n]
                       v == GroupOf(b[1])[k].x[1]
                   IN  \/ 16 * v < 2 * b[3] - 3 * (b[5] - b[3])
                       \/ 16 * v > 2 * b[5] + 3 * (b[5] - b[3])}} :
           n \in DOMAIN box_data}

\* C18: the finished chart has an outlier series exactly when some group has
\* a value outside its fences: without one the series list is the box
\* series alone, otherwise the box series followed by one outlier series
\* with a point per such value.
C18_OutlierSeries ==
    pc = "box_done" =>
        /\ series[1] = [name |-> "Box Plot", type |-> "boxplot", data |-> box_data]
        /\ IF OutOfFence = {}
           THEN Len(series) = 1
           ELSE /\ Len(series) = 2
                /\ series[2].name = "Outliers" /\ series[2].type = "scatter"
                /\ Len(series[2].data) = Cardinality(OutOfFence)
                /\ \A p \in OutOfFence :
                       \E m \in DOMAIN series[2].data :
                           series[2].data[m] = <<p[2], 8 * GroupOf(p[2])[p[1]].x[1]>>

\* a chart whose group has two different values outside its fences
C18_Witness ==
    /\ pc = "box_done"
    /\ Cardinality(OutOfFence) = 2
    /\ Len(series) = 2 /\ Len(series[2].data) = 2
    /\ series[2].data[1] # series[2].data[2]

\* a chart with a box and the box series alone
C18_WitnessNoOutlier ==
    /\ pc = "box_done"
    /\ Len(box_data) = 1
    /\ Len(series) = 1

\* the values of the group of box tuple t that lie inside the fence
\* [q1 - 1.5 * iqr, q3 + 1.5 * iqr] of the quartiles that t reports, in eighths
InsideFence(t) ==
    LET group == GroupOf(t[1])
        lower16 == 2 * t[3] - 3 * (t[5] - t[3])
        upper16 == 2 * t[5] + 3 * (t[5] - t[3])
    IN  {8 * group[k].x[1] : k \in {k \in DOMAIN group :
                                      /\ 16 * group[k].x[1] >= lower16
                                      /\ 16 * group[k].x[1] <= upper16}}

----------------------------------------------------------------------------
(* Claims about get_violin_plot_json *)

\* C19 (as claimed): when some group has a value outside its fences, the
\* violin chart has, besides the box series and the density polygons, an
\* outlier point series with one point per such value.
C19_ViolinOutlierSeries ==
    (pc = "violin_done" /\ OutOfFence # {}) =>
        \E n \in DOMAIN series : series[n].name = "Outliers"

PolygonsAt(idx) == {n \in DOMAIN violin_series : violin_series[n].index = idx}
KdeAt(idx) == {kde_results[n][2] : n \in {m \in DOMAIN kde_results : kde_results[m][1] = idx}}

\* C20: in the finished violin chart a category has a density polygon only
\* if it has more than two observations and its density estimate succeeded
\* with a positive peak; a category with two observations, or whose estimate
\* failed, has no polygon and keeps its box tuple; the loop goes through
\* every category whatever the estimates did; the title is 'Box Plot' when
\* no polygon was produced and 'Violin Plot' otherwise.
C20_Polygons ==
    pc = "violin_done" =>
        /\ i = Len(Present)
        /\ \A idx \in 0..(Len(Present) - 1) :
               /\ Cardinality(TuplesAt(idx)) = IF Len(GroupOf(idx)) > 1 THEN 1 ELSE 0
               /\ Cardinality(PolygonsAt(idx)) =
                      IF Len(GroupOf(idx)) > 2 /\ KdeAt(idx) = {"peak"} THEN 1 ELSE 0
               /\ Len(GroupOf(idx)) <= 2 => KdeAt(idx) = {}
        /\ \A n \in DOMAIN violin_series :
               violin_series[n].index \in 0..(Len(Present) - 1)
        /\ chart_title = IF violin_series = <<>> THEN "Box Plot" ELSE "Violin Plot"

\* a chart whose first category has three observations and a failed
\* estimate, and whose second has two observations: two boxes, no polygon,
\* titled 'Box Plot'
C20_Witness ==
    /\ pc = "violin_done"
    /\ Len(Present) = 2 /\ Len(GroupOf(0)) = 3 /\ Len(GroupOf(1)) = 2
    /\ kde_results = <<<<0, "raises">>>>
    /\ Len(box_data) = 2 /\ violin_series = <<>>
    /\ chart_title = "Box Plot"

\* a chart with a polygon for its second category only
C20_WitnessPolygon ==
    /\ pc = "violin_done"
    /\ Len(box_data) = 2
    /\ Len(violin_series) = 1 /\ violin_series[1].index = 1
    /\ chart_title = "Violin Plot"

----------------------------------------------------------------------------
(* Claims about the heatmaps *)

TripletsAt(x_idx, y_idx) ==
    {n \in DOMAIN heat_data : heat_data[n][1] = x_idx /\ heat_data[n][2] = y_idx}

\* C21: for an N x N matrix the finished chart has exactly N(N-1)/2
\* triplets [x, y, value], one for each cell with x < y and none with x >= y,
\* and each value is the entry at row y, column x rounded to the nearest
\* hundredth.
C21_LowerTriangle ==
    pc = "corr_done" =>
        LET N == Len(corr)
        IN  /\ 2 * Len(heat_data) = N * (N - 1)
            /\ \A n \in DOMAIN heat_data :
                   /\ heat_data[n][1] \in 0..(N - 1) /\ heat_data[n][2] \in 0..(N - 1)
                   /\ heat_data[n][1] < heat_data[n][2]
                   /\ LET entry == corr[heat_data[n][2] + 1][heat_data[n][1] + 1]
                          d == 10 * heat_data[n][3] - entry
                      IN  d <= 5 /\ -d <= 5
            /\ \A y_idx \in 0..(N - 1) : \A x_idx \in 0..(N - 1) :
                   Cardinality(TripletsAt(x_idx, y_idx)) = IF x_idx < y_idx THEN 1 ELSE 0

\* the chart of a 3 x 3 matrix that is not symmetric: three triplets
C21_Witness ==
    /\ pc = "corr_done"
    /\ Len(corr) = 3 /\ corr[2][1] # corr[1][2]
    /\ Len(heat_data) = 3
    /\ heat_data[1] = <<0, 1, Round2(corr[2][1])>>

\* C22: when the call has ended, every cell of the cross-tabulation with a
\* count above zero has exactly one triplet (x, y, count), and a cell whose
\* count is zero has none.
C22_NonEmptyCells ==
    pc \in {"freq_done", "freq_raised"} =>
        \A a \in DOMAIN heatmap_data.index : \A b \in DOMAIN heatmap_data.columns :
            LET count == heatmap_data.counts[<<heatmap_data.index[a], heatmap_data.columns[b]>>]
            IN  IF count > 0
                THEN /\ Cardinality(TripletsAt(b - 1, a - 1)) = 1
                     /\ \A n \in TripletsAt(b - 1, a - 1) : heat_data[n][3] = count
                ELSE TripletsAt(b - 1, a - 1) = {}

----------------------------------------------------------------------------
(* Claims about the web service *)

\* C23: with the in-memory backend (Redis unreachable at startup), a GET
\* /analyzers/{id} for an id that an upload returned with 201 answers 200 as
\* long as no DELETE of the id has answered 200, and 404 once one has; a
\* DELETE answers 200 only for a stored id and 404 for a deleted one.
C23_MemoryLifecycle ==
    (app = "flask" /\ ~use_redis /\ resp # NA) =>
        LET r == resp[1]
            s == Lookup(sessions, r.id)
        IN  /\ (r.op = "analyzer_info" /\ s # NA) =>
                  r.status = IF s[1].deleted THEN 404 ELSE 200
            /\ (r.op = "delete" /\ s # NA) =>
                  /\ r.status \in {200, 404}
                  /\ s[1].deleted

\* C24: a visualization request with an id that is not a UUID is answered
\* 400 'Invalid analyzer ID format'; one with a UUID that has no stored
\* analyzer is answered 404 'Analyzer not found'.
C24_MalformedIdRejected ==
    (resp # NA /\ resp[1].op = "correlation_heatmap") =>
        /\ resp[1].id \in MalformedIds =>
              resp[1].status = 400 /\ resp[1].detail = "Invalid analyzer ID format"
        /\ (resp[1].id \in UuidIds /\ sessions[resp[1].id] = NA) =>
              resp[1].status = 404 /\ resp[1].detail = "Analyzer not found"

C25_WitnessMemory ==
    /\ ~use_redis
    /\ resp # NA /\ resp[1].op = "health" /\ resp[1].status = 200
    /\ resp[1].health[1].status = "healthy"
    /\ resp[1].health[1].storage = "memory"

\* the filename has a dot and the part after its last dot is csv in any case
CsvName(filename) ==
    Len(filename) >= 2 /\ filename[Len(filename)] \in {"csv", "CSV"}

C26_WitnessRejected ==
    /\ resp # NA /\ resp[1].op = "upload" /\ resp[1].status = 400
    /\ resp[1].request[1].file = Some(<<"data", "csv", "zip">>)
    /\ resp[1].detail = "Only CSV files are allowed"
    /\ \E id \in UuidIds : sessions[id] # NA

\* C27: when the analyzer of a GET request is gone (deleted or expired) by
\* the time the handler fetches it, after its existence check had passed and
\* with the storage still reachable, the request is answered 404 'Analyzer
\* not found', whichever endpoint it is.
C27_GoneBetweenCheckAndFetch ==
    [][(/\ req # NA /\ req' = NA
        /\ (use_redis => redis_up)
        /\ StorageGet(req[1].id) = NA) =>
          /\ resp' # NA
          /\ resp'[1].op = req[1].endpoint /\ resp'[1].id = req[1].id
          /\ resp'[1].status = 404
          /\ resp'[1].detail = "Analyzer not found"]_vars

C30_RetrievableUntilExpiry ==
    [][(req # NA /\ req' = NA /\ (use_redis => redis_up)) =>
          LET s == Lookup(sessions, req[1].id)
          IN  (resp' # NA /\ resp'[1].analyzer # NA)
                 <=> (s # NA /\ ~s[1].deleted /\ now < s[1].expires_at)]_vars

====
